---- MODULE Spec2Model ----
\* QueueCtl: the durable job queue (JobQueue over the SQLite store), the
\* retry policy (Job.canRetry / Job.getRetryDelay) and the worker pool
\* (WorkerManager.processJobs / executeCommand), modelled statement by
\* statement: every awaited store statement is one atomic step, and the
\* steps of different processJobs invocations interleave freely.
EXTENDS Integers, Sequences, FiniteSets, TLC

\* ---------------------------------------------------------------- bounds
MaxJobs == 1
MaxLoops == 2
MaxTime == 2
MaxCrashes == 1

\* ------------------------------------------------------ program constants
DefaultMaxRetries == 3
DefaultBackoffBase == "2"
DefaultTimeout == 300

\* ------------------------------------------------------------ input sets
JobIds == 1 .. MaxJobs
Loops == 1 .. MaxLoops
Priorities == {0, 1}
\* max_retries given to enqueue; 0 stands for "not given" (falsy in JS)
MaxRetriesIn == {0, 1, 2}
Commands == {"cmd"}
ScenarioPriorities == <<0, 5, 3, 5, 1>>

NoId == 0
\* the number parseInt gives for a text that does not start with digits (no
\* text of the model parses to a negative number)
NaN == 0 - 1
NULL == <<>>
NullText == "NULL"

VARIABLES
    now,                  \* wall clock in whole seconds (Date.now())
    jobs,                 \* table jobs: id -> row
    dead_letter_queue,    \* table dead_letter_queue: id -> row
    config,               \* table config: key -> value
    workers,              \* WorkerManager.workers: workerId -> worker
    pc,                   \* per processJobs invocation chain: next statement
    frame,                \* per invocation chain: the locals of the calls
    crashes,              \* number of process crashes so far
    log,                  \* ids returned to the sequential caller, in order
    call,                 \* the last call of an API caller and how it ended
    revive,               \* a retryDeadJob call between its statements
    enqueued,             \* the job data and the Job of a caller's last enqueue
    isShuttingDown,       \* WorkerManager.isShuttingDown
    stop                  \* the position of a stopWorkers call

vars == <<now, jobs, dead_letter_queue, config, workers, pc, frame, crashes, log,
          call, revive, enqueued, isShuttingDown, stop>>
storeVars == <<jobs, dead_letter_queue, config>>
stopVars == <<isShuttingDown, stop>>
poolVars == <<workers, pc, frame, stopVars>>
callerVars == <<log, call, revive, enqueued>>

\* ----------------------------------------------------------- timestamps
\* Date.prototype.toISOString: a fixed-width, zero-padded text
ToISOString(t) == <<t \div 10, t % 10>>

\* Date.parse of such a text (used by the properties only)
TimeOf(s) == s[1] * 10 + s[2]

\* SQLite's comparison of two TEXT values of this form: byte by byte
TextLess(a, b) ==
    \/ a[1] < b[1]
    \/ a[1] = b[1] /\ a[2] < b[2]

TextLeq(a, b) == a = b \/ TextLess(a, b)

RECURSIVE Pow(_, _)
Pow(b, n) == IF n = 0 THEN 1 ELSE b * Pow(b, n - 1)

\* ------------------------------------------------------------- Job model
\* data.field || fallback, for job data that may not give the field
Given(data, field, fallback) ==
    IF field \in DOMAIN data THEN data[field] ELSE fallback

\* new Job(data) as inserted by enqueue: the columns of the INSERT (command,
\* state, attempts, max_retries, priority, timeout_seconds (0: not given),
\* run_at, created_at and
\* next_retry_at come from the job data when it gives them); error_message
\* and output are not columns of the INSERT
NewJob(data, t) ==
    [ command       |-> data.command,
      state         |-> Given(data, "state", "pending"),
      attempts      |-> Given(data, "attempts", 0),
      max_retries   |-> IF data.max_retries = 0 THEN DefaultMaxRetries
                                                ELSE data.max_retries,
      priority      |-> Given(data, "priority", 0),
      timeout_seconds |-> IF Given(data, "timeout_seconds", 0) = 0
                          THEN DefaultTimeout
                          ELSE data.timeout_seconds,
      run_at        |-> Given(data, "run_at", NULL),
      created_at    |-> Given(data, "created_at", ToISOString(t)),
      next_retry_at |-> Given(data, "next_retry_at", NULL),
      error_message |-> NullText,
      output        |-> NullText ]

\* faulty variant of markAsFailed: the failure is not counted, so canRetry
\* sees the attempts from before the increment
markAsFailedUncounted(job, errorMessage) ==
    [job EXCEPT !.state = "failed",
                !.error_message = errorMessage]

\* Job.markAsFailed
markAsFailed(job, errorMessage) ==
    [job EXCEPT !.state = "failed",
                !.attempts = job.attempts + 1,
                !.error_message = errorMessage]

\* faulty variant of canRetry: attempts <= max_retries
canRetryInclusive(job) == job.attempts <= job.max_retries

\* Job.canRetry
canRetry(job) == job.attempts < job.max_retries

\* faulty variant of getRetryDelay: the attempts from before the increment
getRetryDelayBeforeIncrement(job, backoffBase) == Pow(backoffBase, job.attempts - 1)

\* Job.getRetryDelay: Math.pow(backoffBase, this.attempts), NaN for a NaN
\* base (attempts is at least 1 when failJob calls it)
getRetryDelay(job, backoffBase) ==
    IF backoffBase = NaN THEN NaN ELSE Pow(backoffBase, job.attempts)

\* Job.scheduleRetry raises: setSeconds(NaN) makes the date invalid and
\* toISOString() of an invalid date throws a RangeError
scheduleRetryRaises(delaySeconds) == delaySeconds = NaN

\* faulty variant of scheduleRetry: the state set by markAsFailed is kept
scheduleRetryKeepsState(job, delaySeconds, t) ==
    [job EXCEPT !.next_retry_at = ToISOString(t + delaySeconds)]

\* Job.scheduleRetry
scheduleRetry(job, delaySeconds, t) ==
    [job EXCEPT !.next_retry_at = ToISOString(t + delaySeconds),
                !.state = "pending"]

\* ------------------------------------------------------------ the store
InJobs(id) == id \in DOMAIN jobs
InDLQ(id) == id \in DOMAIN dead_letter_queue

Put(table, id, row) ==
    [k \in DOMAIN table \cup {id} |-> IF k = id THEN row ELSE table[k]]

Remove(table, id) == [k \in DOMAIN table \ {id} |-> table[k]]

\* the WHERE clause of dequeue's SELECT
Eligible(table, nowText) ==
    { id \in DOMAIN table :
        /\ table[id].state = "pending"
        /\ (table[id].next_retry_at = NULL \/ TextLeq(table[id].next_retry_at, nowText))
        /\ (table[id].run_at = NULL \/ TextLeq(table[id].run_at, nowText)) }

\* faulty variant of the order: ORDER BY priority DESC, created_at DESC
SortsBeforeNewestFirst(a, b) ==
    \/ a.priority > b.priority
    \/ a.priority = b.priority /\ TextLess(b.created_at, a.created_at)

\* ORDER BY priority DESC, created_at ASC: row a sorts strictly before row b
SortsBefore(a, b) ==
    \/ a.priority > b.priority
    \/ a.priority = b.priority /\ TextLess(a.created_at, b.created_at)

\* the rows LIMIT 1 may return: the first of the order; rows that tie on
\* both keys come in storage order, which the store does not fix
SelectCandidates(table, nowText) ==
    { id \in Eligible(table, nowText) :
        \A other \in Eligible(table, nowText) : ~SortsBefore(table[other], table[id]) }

\* UPDATE jobs SET state = 'processing' ... WHERE id = ? AND state = 'pending'
GuardedUpdateChanges(table, id) ==
    IF id \in DOMAIN table /\ table[id].state = "pending" THEN 1 ELSE 0

GuardedUpdate(table, id) ==
    IF GuardedUpdateChanges(table, id) = 1
    THEN [table EXCEPT ![id].state = "processing"]
    ELSE table

\* dequeue's verification: SELECT * FROM jobs WHERE id = ? and the test
\* lockedJob && lockedJob.state === 'processing'
Locked(table, id) == id \in DOMAIN table /\ table[id].state = "processing"

\* completeJob's UPDATE
CompleteUpdate(table, id, output) ==
    IF id \in DOMAIN table
    THEN [table EXCEPT ![id].state = "completed", ![id].output = output]
    ELSE table

\* failJob's UPDATE on the retry path
RetryUpdate(table, id, job) ==
    IF id \in DOMAIN table
    THEN [table EXCEPT ![id].state = job.state,
                       ![id].attempts = job.attempts,
                       ![id].error_message = job.error_message,
                       ![id].next_retry_at = job.next_retry_at]
    ELSE table

\* the row moveToDeadLetterQueue inserts (failed_at = now)
DeadRow(job, t) ==
    [ command       |-> job.command,
      attempts      |-> job.attempts,
      max_retries   |-> job.max_retries,
      created_at    |-> job.created_at,
      failed_at     |-> ToISOString(t),
      error_message |-> job.error_message ]

\* JobQueue.getConfig: the value of a key, or null
getConfig(cfg, key) == IF key \in DOMAIN cfg THEN cfg[key] ELSE NullText

\* parseInt on the texts the config table holds
parseInt(text) ==
    CASE text = "0" -> 0
      [] text = "1" -> 1
      [] text = "2" -> 2
      [] text = "3" -> 3
      [] OTHER -> NaN

\* parseInt(await this.getConfig('backoff_base') || '2'): the default for
\* null and for the empty text
BackoffBase(cfg) ==
    IF getConfig(cfg, "backoff_base") \in {NullText, ""}
    THEN parseInt(DefaultBackoffBase)
    ELSE parseInt(getConfig(cfg, "backoff_base"))

\* Database.initialize: the rows INSERT OR IGNORE puts into config
DefaultConfig ==
    [ max_retries |-> "3", backoff_base |-> DefaultBackoffBase, worker_timeout |-> "300" ]

\* ------------------------------------------------------- the worker pool
NoFrame ==
    [ workerId   |-> NoId,
      jobRow     |-> NoId,
      changes    |-> 0,
      job        |-> NoId,
      loaded     |-> <<>>,
      child      |-> "none",
      isTimedOut |-> FALSE,
      killed     |-> FALSE,
      killTimer  |-> FALSE,
      error      |-> NullText,
      caught     |-> FALSE ]

IdleWorker == [isProcessing |-> FALSE, currentJob |-> NoId]

\* no API call made yet; no retryDeadJob under way
NoCall == [op |-> "none", id |-> NoId, outcome |-> "none", message |-> NullText]
NoRevive == [pc |-> "idle", id |-> NoId, dead |-> NoId]
NoEnqueue == <<>>

Init ==
    /\ now = 0
    /\ jobs = [id \in {} |-> 0]
    /\ dead_letter_queue = [id \in {} |-> 0]
    /\ config = DefaultConfig
    /\ workers = [w \in {} |-> 0]
    /\ pc = [l \in Loops |-> "idle"]
    /\ frame = [l \in Loops |-> NoFrame]
    /\ crashes = 0
    /\ log = <<>>
    /\ call = NoCall
    /\ revive = NoRevive
    /\ enqueued = NoEnqueue
    /\ isShuttingDown = FALSE
    /\ stop = "idle"

\* the passage of time
Tick ==
    /\ now < MaxTime
    /\ now' = now + 1
    /\ UNCHANGED <<storeVars, poolVars, crashes, callerVars>>

\* JobQueue.enqueue (a primary-key conflict raises and changes nothing)
enqueue(data) ==
    /\ ~InJobs(data.id)
    /\ jobs' = Put(jobs, data.id, NewJob(data, now))
    /\ UNCHANGED <<now, dead_letter_queue, config, poolVars, crashes, callerVars>>

\* Job.generateId: an id no job has had before (ids are handed out in order)
FreshIds(ids) ==
    { id \in ids : /\ ~InJobs(id) /\ ~InDLQ(id)
                   /\ \A k \in ids : k < id => (InJobs(k) \/ InDLQ(k)) }

\* the job data of the CLI's enqueue command: a command, a priority, a
\* max_retries (0: not given) and --delay 1 or no delay
EnqueueInputs(ids) ==
    [ id : FreshIds(ids), command : Commands, max_retries : MaxRetriesIn,
      priority : Priorities, run_at : {NULL, ToISOString(now + 1)} ]

Enqueue == \E data \in EnqueueInputs(JobIds) : enqueue(data)

\* WorkerManager.startWorkers(count) -> startWorker: one invocation of
\* processJobs per worker
startWorkers(count) ==
    /\ DOMAIN workers = {}
    /\ ~isShuttingDown
    /\ workers' = [w \in 1 .. count |-> IdleWorker]
    /\ pc' = [l \in Loops |-> IF l <= count THEN "timer" ELSE "idle"]
    /\ frame' = [l \in Loops |-> IF l <= count THEN [NoFrame EXCEPT !.workerId = l]
                                               ELSE NoFrame]
    /\ UNCHANGED <<now, storeVars, crashes, stopVars, callerVars>>

StartWorkers == \E count \in 1 .. MaxLoops : startWorkers(count)

\* the worker process dies (kill -9, power loss, uncaught error): every
\* invocation chain and every in-memory structure is gone, the store stays
Crash ==
    /\ DOMAIN workers # {}
    /\ crashes < MaxCrashes
    /\ crashes' = crashes + 1
    /\ workers' = [w \in {} |-> 0]
    /\ pc' = [l \in Loops |-> "idle"]
    /\ frame' = [l \in Loops |-> NoFrame]
    /\ isShuttingDown' = FALSE
    /\ stop' = "idle"
    /\ UNCHANGED <<now, storeVars, callerVars>>

\* processJobs' finally block, and the timers armed on the way out: the
\* 100 ms timer re-arms this chain; on an empty poll the 1000 ms timer of
\* line 612 arms a second chain for the same worker (while a slot is free)
FreeLoops == { l \in Loops : pc[l] = "idle" }

FirstFree == CHOOSE l \in FreeLoops : \A m \in FreeLoops : l <= m

\* a worker object taken out of the map by stopWorkers' clear() is still
\* written by the chain that holds it; the map is not
SetWorker(w, worker) ==
    IF w \in DOMAIN workers THEN [workers EXCEPT ![w] = worker] ELSE workers

\* once isShuttingDown is set the finally block arms no timer; the timer of
\* an empty poll is armed all the same, and its processJobs returns at once
Finally(l, emptyPoll) ==
    LET w == frame[l].workerId
        extra == IF emptyPoll /\ FreeLoops # {} /\ ~isShuttingDown THEN {FirstFree} ELSE {}
        rearmed == IF ~isShuttingDown \/ emptyPoll THEN {l} ELSE {}
    IN  /\ workers' = SetWorker(w, IdleWorker)
        /\ pc' = [k \in Loops |-> IF k \in rearmed \cup extra THEN "timer"
                                  ELSE IF k = l THEN "idle" ELSE pc[k]]
        /\ frame' = [k \in Loops |-> IF k \in rearmed \cup extra
                                     THEN [NoFrame EXCEPT !.workerId = w]
                                     ELSE IF k = l THEN NoFrame ELSE frame[k]]

\* processJobs up to the first store statement of dequeue: the SELECT
Select(l) ==
    /\ pc[l] = "timer"
    /\ IF frame[l].workerId \notin DOMAIN workers \/ isShuttingDown
       THEN /\ pc' = [pc EXCEPT ![l] = "idle"]
            /\ frame' = [frame EXCEPT ![l] = NoFrame]
            /\ UNCHANGED workers
       ELSE IF Eligible(jobs, ToISOString(now)) = {}
       THEN Finally(l, TRUE)
       ELSE \E id \in SelectCandidates(jobs, ToISOString(now)) :
              /\ pc' = [pc EXCEPT ![l] = "update"]
              /\ frame' = [frame EXCEPT ![l].jobRow = id]
              /\ UNCHANGED workers
    /\ UNCHANGED <<now, storeVars, crashes, stopVars, callerVars>>

\* dequeue: the guarded UPDATE
Update(l) ==
    /\ pc[l] = "update"
    /\ jobs' = GuardedUpdate(jobs, frame[l].jobRow)
    /\ frame' = [frame EXCEPT ![l].changes = GuardedUpdateChanges(jobs, frame[l].jobRow)]
    /\ pc' = [pc EXCEPT ![l] = "verify"]
    /\ UNCHANGED <<now, dead_letter_queue, config, workers, crashes, stopVars, callerVars>>

\* dequeue: the verification read and the return; processJobs then marks
\* the worker busy and spawns the child
Verify(l) ==
    /\ pc[l] = "verify"
    /\ IF Locked(jobs, frame[l].jobRow)
       THEN /\ workers' = SetWorker(frame[l].workerId,
                              [isProcessing |-> TRUE, currentJob |-> frame[l].jobRow])
            /\ frame' = [frame EXCEPT ![l].job = frame[l].jobRow,
                                      ![l].child = "running"]
            /\ pc' = [pc EXCEPT ![l] = "exec"]
       ELSE Finally(l, TRUE)
    /\ UNCHANGED <<now, storeVars, crashes, stopVars, callerVars>>

\* ------------------------------------------------------- executeCommand
TimeoutMessage == "Job timed out"
ExitMessage == "Command failed with exit code 1"
ConstraintMessage == "SQLITE_CONSTRAINT"
RangeErrorMessage == "Invalid time value"
StoreErrorMessage == "SQLITE_BUSY"

\* the child's 'close' event: clearTimeout, then resolve by isTimedOut and
\* the exit code; processJobs goes on to completeJob or failJob
ChildClose(l) ==
    /\ pc[l] = "exec"
    /\ \/ /\ frame[l].child = "running"
          /\ \E code \in {0, 1} :
               IF code = 0
               THEN /\ pc' = [pc EXCEPT ![l] = "complete"]
                    /\ frame' = [frame EXCEPT ![l].child = "none"]
               ELSE /\ pc' = [pc EXCEPT ![l] = "fail_get"]
                    /\ frame' = [frame EXCEPT ![l].child = "none",
                                              ![l].error = ExitMessage]
       \/ /\ frame[l].child = "dying"
          /\ pc' = [pc EXCEPT ![l] = "fail_get"]
          /\ frame' = [frame EXCEPT ![l].child = "none",
                                    ![l].isTimedOut = FALSE,
                                    ![l].killed = FALSE,
                                    ![l].killTimer = FALSE,
                                    ![l].error = TimeoutMessage]
    /\ UNCHANGED <<now, storeVars, workers, crashes, stopVars, callerVars>>

\* the timeout timer: isTimedOut = true and child.kill('SIGTERM'), which
\* sets child.killed once the signal is delivered; the child either dies of
\* the signal or ignores it; the 5 s timer is armed
TimeoutFire(l) ==
    /\ pc[l] = "exec"
    /\ frame[l].child = "running"
    /\ \E effect \in {"dying", "ignoring"} :
         frame' = [frame EXCEPT ![l].isTimedOut = TRUE,
                                ![l].killed = TRUE,
                                ![l].killTimer = TRUE,
                                ![l].child = effect]
    /\ UNCHANGED <<now, storeVars, workers, pc, crashes, stopVars, callerVars>>

\* the 5 s timer: if (!child.killed) child.kill('SIGKILL')
KillTimerFire(l) ==
    /\ pc[l] = "exec"
    /\ frame[l].killTimer
    /\ frame' = [frame EXCEPT ![l].killTimer = FALSE,
                              ![l].child = IF ~frame[l].killed THEN "dying"
                                           ELSE frame[l].child]
    /\ UNCHANGED <<now, storeVars, workers, pc, crashes, stopVars, callerVars>>

\* ------------------------------------------------- completeJob, failJob
\* completeJob: its single UPDATE, then processJobs' finally
Complete(l) ==
    /\ pc[l] = "complete"
    /\ jobs' = CompleteUpdate(jobs, frame[l].job, "stdout")
    /\ Finally(l, FALSE)
    /\ UNCHANGED <<now, dead_letter_queue, config, crashes, stopVars, callerVars>>

\* failJob: getJob, markAsFailed and the branch on canRetry
FailGet(l) ==
    /\ pc[l] = "fail_get"
    /\ IF ~InJobs(frame[l].job)
       THEN Finally(l, FALSE)
       ELSE LET job == markAsFailed(jobs[frame[l].job], frame[l].error)
            IN  /\ frame' = [frame EXCEPT ![l].loaded = <<job>>]
                /\ pc' = [pc EXCEPT ![l] = IF canRetry(job) THEN "fail_config"
                                                           ELSE "dlq_insert"]
                /\ UNCHANGED workers
    /\ UNCHANGED <<now, storeVars, crashes, stopVars, callerVars>>

\* failJob, retry path: getConfig('backoff_base'), getRetryDelay, scheduleRetry
\* (no operation of the pool changes backoff_base, which is numeric from
\* Database.initialize on, so scheduleRetry does not raise here)
FailConfig(l) ==
    /\ pc[l] = "fail_config"
    /\ LET job == frame[l].loaded[1]
           delay == getRetryDelay(job, BackoffBase(config))
       IN  frame' = [frame EXCEPT ![l].loaded = <<scheduleRetry(job, delay, now)>>]
    /\ pc' = [pc EXCEPT ![l] = "fail_update"]
    /\ UNCHANGED <<now, storeVars, workers, crashes, stopVars, callerVars>>

\* failJob, retry path: the UPDATE, then processJobs' finally
FailUpdate(l) ==
    /\ pc[l] = "fail_update"
    /\ jobs' = RetryUpdate(jobs, frame[l].job, frame[l].loaded[1])
    /\ Finally(l, FALSE)
    /\ UNCHANGED <<now, dead_letter_queue, config, crashes, stopVars, callerVars>>

\* worker.currentJob as the chain's catch block reads it (the chain keeps
\* its worker object when stopWorkers has cleared the map)
CurrentJob(l) ==
    IF frame[l].workerId \in DOMAIN workers
    THEN workers[frame[l].workerId].currentJob
    ELSE frame[l].job

\* moveToDeadLetterQueue: the INSERT. A primary-key conflict raises: the
\* first time processJobs' catch block calls failJob(worker.currentJob)
\* again, the second time the error leaves processJobs through finally
DlqInsert(l) ==
    /\ pc[l] = "dlq_insert"
    /\ IF ~InDLQ(frame[l].job)
       THEN /\ dead_letter_queue' =
                  Put(dead_letter_queue, frame[l].job, DeadRow(frame[l].loaded[1], now))
            /\ pc' = [pc EXCEPT ![l] = "dlq_delete"]
            /\ UNCHANGED <<workers, frame>>
       ELSE /\ UNCHANGED dead_letter_queue
            /\ IF ~frame[l].caught /\ CurrentJob(l) # NoId
               THEN /\ pc' = [pc EXCEPT ![l] = "fail_get"]
                    /\ frame' = [frame EXCEPT
                                   ![l].job = CurrentJob(l),
                                   ![l].loaded = <<>>,
                                   ![l].error = ConstraintMessage,
                                   ![l].caught = TRUE]
                    /\ UNCHANGED workers
               ELSE Finally(l, FALSE)
    /\ UNCHANGED <<now, jobs, config, crashes, stopVars, callerVars>>

\* moveToDeadLetterQueue: the DELETE, then processJobs' finally
DlqDelete(l) ==
    /\ pc[l] = "dlq_delete"
    /\ jobs' = Remove(jobs, frame[l].job)
    /\ Finally(l, FALSE)
    /\ UNCHANGED <<now, dead_letter_queue, config, crashes, stopVars, callerVars>>

\* completeJob's UPDATE raises a store error (the database is busy or
\* closed): processJobs' catch block calls failJob(worker.currentJob,
\* error.message)
CompleteRaises(l) ==
    /\ pc[l] = "complete"
    /\ IF CurrentJob(l) # NoId
       THEN /\ pc' = [pc EXCEPT ![l] = "fail_get"]
            /\ frame' = [frame EXCEPT ![l].job = CurrentJob(l),
                                      ![l].loaded = <<>>,
                                      ![l].error = StoreErrorMessage,
                                      ![l].caught = TRUE]
            /\ UNCHANGED workers
       ELSE Finally(l, FALSE)
    /\ UNCHANGED <<now, storeVars, crashes, stopVars, callerVars>>

\* one step of one processJobs invocation chain
LoopStep(l) ==
    \/ Select(l)
    \/ Update(l)
    \/ Verify(l)
    \/ ChildClose(l)
    \/ TimeoutFire(l)
    \/ KillTimerFire(l)
    \/ Complete(l)
    \/ FailGet(l)
    \/ FailConfig(l)
    \/ FailUpdate(l)
    \/ DlqInsert(l)
    \/ DlqDelete(l)

\* ------------------------------------------------------------ stopWorkers
\* WorkerManager.getActiveWorkerCount
getActiveWorkerCount == Cardinality({ w \in DOMAIN workers : workers[w].isProcessing })

\* stopWorkers up to its await: isShuttingDown = true, then either the
\* wait for active jobs or, with none active, clear() and the return
StopRequest ==
    /\ stop = "idle"
    /\ DOMAIN workers # {}
    /\ isShuttingDown' = TRUE
    /\ IF getActiveWorkerCount > 0
       THEN /\ stop' = "waiting"
            /\ UNCHANGED workers
       ELSE /\ stop' = "done"
            /\ workers' = [w \in {} |-> 0]
    /\ UNCHANGED <<now, storeVars, pc, frame, crashes, callerVars>>

\* waitForActiveJobs: the 500 ms interval finds no active worker; clear()
\* and the return of stopWorkers
StopPoll ==
    /\ stop = "waiting"
    /\ getActiveWorkerCount = 0
    /\ stop' = "done"
    /\ workers' = [w \in {} |-> 0]
    /\ UNCHANGED <<now, storeVars, pc, frame, crashes, callerVars, isShuttingDown>>

\* ------------------------------------------------- a sequential caller
\* A caller of the queue API with no worker pool running, as in the
\* repository's tests: it enqueues jobs one after the other, then calls
\* dequeue() repeatedly; no other statement runs between the three
\* statements of one dequeue().
ScenarioIds == 1 .. Len(ScenarioPriorities)

ScenarioInputs ==
    [ id : FreshIds(ScenarioIds), command : Commands, max_retries : {0},
      priority : {ScenarioPriorities[i] : i \in ScenarioIds}, run_at : {NULL} ]

SeqEnqueue ==
    /\ log = <<>>
    /\ DOMAIN workers = {}
    /\ \E data \in ScenarioInputs : enqueue(data)

\* JobQueue.dequeue run to its return; a returned job is appended to log
SeqDequeue ==
    /\ DOMAIN workers = {}
    /\ \E id \in SelectCandidates(jobs, ToISOString(now)) :
         /\ jobs' = GuardedUpdate(jobs, id)
         /\ log' = IF Locked(jobs', id) THEN Append(log, id) ELSE log
    /\ UNCHANGED <<now, dead_letter_queue, config, poolVars, crashes, call, revive, enqueued>>

\* ------------------------------------------------------ callers of the API
\* Callers of the queue API outside the worker pool: the CLI commands
\* (enqueue, config set, dlq retry), the dashboard and the repository's
\* tests. Each call runs to its return without another statement in
\* between, except retryDeadJob, whose statements are separate steps: the
\* CLI process that runs it shares the store with other processes and can
\* be killed between two statements.
\* the ids a caller may name: those of the jobs, and one more
CallerIds == 1 .. (MaxJobs + 1)

NotFoundMessage == "not found in dead letter queue"
Running == "running"
Ok == "ok"

\* the job data a caller passes to enqueue: a command that is given, empty
\* or missing, with or without a max_retries; JSON job data from the CLI may
\* also give state and attempts
PlainInputs(ids) ==
    [ id : ids, command : {"cmd", "", NullText}, max_retries : MaxRetriesIn ]

JsonInputs(ids) ==
    [ id : ids, command : {"cmd"}, max_retries : {0},
      state : {"processing", "completed"}, attempts : {0, 1} ]

ApiInputs(ids) == PlainInputs(ids) \cup JsonInputs(ids)

\* faulty variant of Insert: INSERT OR REPLACE
InsertOrReplace(table, id, row) ==
    IF row.command = NullText THEN table ELSE Put(table, id, row)

\* INSERT INTO jobs: id is the PRIMARY KEY and command is NOT NULL; a row
\* that breaks a constraint is not inserted (and the statement raises)
Insert(table, id, row) ==
    IF id \in DOMAIN table \/ row.command = NullText THEN table ELSE Put(table, id, row)

\* whether the INSERT raises SQLITE_CONSTRAINT
InsertRaises(table, id, row) == id \in DOMAIN table \/ row.command = NullText

EndOf(op, id, outcome, message) ==
    [op |-> op, id |-> id, outcome |-> outcome, message |-> message]

\* JobQueue.enqueue called with any job data
enqueueAny(ids) ==
    /\ \E data \in ApiInputs(ids) :
         LET job == NewJob(data, now)
         IN  /\ jobs' = Insert(jobs, data.id, job)
             /\ call' = EndOf("enqueue", data.id,
                              IF InsertRaises(jobs, data.id, job) THEN ConstraintMessage
                                                                  ELSE Ok,
                              data.command)
    /\ UNCHANGED <<now, dead_letter_queue, config, poolVars, crashes, log, revive, enqueued>>

ApiEnqueue == enqueueAny(JobIds)

\* JobQueue.dequeue run to its return
ApiDequeue ==
    /\ IF Eligible(jobs, ToISOString(now)) = {}
       THEN /\ call' = EndOf("dequeue", NoId, "null", NullText)
            /\ UNCHANGED jobs
       ELSE \E id \in SelectCandidates(jobs, ToISOString(now)) :
              /\ jobs' = GuardedUpdate(jobs, id)
              /\ call' = EndOf("dequeue", id,
                               IF Locked(jobs', id) THEN "job" ELSE "null", NullText)
    /\ UNCHANGED <<now, dead_letter_queue, config, poolVars, crashes, log, revive, enqueued>>

\* the jobs a caller holds from dequeue
Claimed == { id \in DOMAIN jobs : jobs[id].state = "processing" }

\* JobQueue.completeJob on a claimed job
ApiComplete ==
    /\ \E id \in Claimed :
         /\ jobs' = CompleteUpdate(jobs, id, "stdout")
         /\ call' = EndOf("completeJob", id, Ok, NullText)
    /\ UNCHANGED <<now, dead_letter_queue, config, poolVars, crashes, log, revive, enqueued>>

\* faulty variant of failJob: moveToDeadLetterQueue with INSERT OR REPLACE
failJobReplacing(jobId, errorMessage) ==
    LET job == markAsFailed(jobs[jobId], errorMessage)
    IN  IF canRetry(job)
        THEN LET delay == getRetryDelay(job, BackoffBase(config))
             IN  /\ jobs' = RetryUpdate(jobs, jobId, scheduleRetry(job, delay, now))
                 /\ call' = EndOf("failJob", jobId, Ok, errorMessage)
                 /\ UNCHANGED dead_letter_queue
        ELSE /\ dead_letter_queue' = Put(dead_letter_queue, jobId, DeadRow(job, now))
             /\ jobs' = Remove(jobs, jobId)
             /\ call' = EndOf("failJob", jobId, Ok, errorMessage)

\* JobQueue.failJob on a claimed job, run to its return: the retry path, or
\* moveToDeadLetterQueue, whose INSERT raises when the id is already a
\* DLQ entry
failJob(jobId, errorMessage) ==
    LET job == markAsFailed(jobs[jobId], errorMessage)
    IN  IF canRetry(job)
        THEN LET delay == getRetryDelay(job, BackoffBase(config))
             IN  IF scheduleRetryRaises(delay)
                 THEN /\ call' = EndOf("failJob", jobId, RangeErrorMessage, errorMessage)
                      /\ UNCHANGED <<jobs, dead_letter_queue>>
                 ELSE /\ jobs' = RetryUpdate(jobs, jobId, scheduleRetry(job, delay, now))
                      /\ call' = EndOf("failJob", jobId, Ok, errorMessage)
                      /\ UNCHANGED dead_letter_queue
        ELSE IF InDLQ(jobId)
             THEN /\ call' = EndOf("failJob", jobId, ConstraintMessage, errorMessage)
                  /\ UNCHANGED <<jobs, dead_letter_queue>>
             ELSE /\ dead_letter_queue' = Put(dead_letter_queue, jobId, DeadRow(job, now))
                  /\ jobs' = Remove(jobs, jobId)
                  /\ call' = EndOf("failJob", jobId, Ok, errorMessage)

ApiFail ==
    /\ \E id \in Claimed, msg \in {ExitMessage, TimeoutMessage} : failJob(id, msg)
    /\ UNCHANGED <<now, config, poolVars, crashes, log, revive, enqueued>>

\* faulty variant of setConfig: INSERT OR IGNORE
setConfigOnce(key, value) ==
    /\ config' = IF key \in DOMAIN config THEN config ELSE Put(config, key, value)
    /\ call' = [ op |-> "setConfig", id |-> NoId, outcome |-> Ok, message |-> value,
                 key |-> key ]
    /\ UNCHANGED <<now, jobs, dead_letter_queue, poolVars, crashes, log, revive, enqueued>>

\* JobQueue.setConfig: INSERT OR REPLACE INTO config
setConfig(key, value) ==
    /\ config' = Put(config, key, value)
    /\ call' = [ op |-> "setConfig", id |-> NoId, outcome |-> Ok, message |-> value,
                 key |-> key ]
    /\ UNCHANGED <<now, jobs, dead_letter_queue, poolVars, crashes, log, revive, enqueued>>

ApiSetConfig == \E value \in {"1", "2", "3"} : setConfig("backoff_base", value)

\* faulty variant of DeadJobLookup: the SELECT without its WHERE clause
DeadJobLookupAny(table, jobId) == DOMAIN table

\* SELECT * FROM dead_letter_queue WHERE id = ?: the ids of the rows found
DeadJobLookup(table, jobId) == IF jobId \in DOMAIN table THEN {jobId} ELSE {}

\* retryDeadJob: the SELECT and the test if (!deadJob)
RetryGet(jobId) ==
    /\ revive.pc = "idle"
    /\ IF DeadJobLookup(dead_letter_queue, jobId) = {}
       THEN /\ call' = EndOf("retryDeadJob", jobId, NotFoundMessage, NullText)
            /\ UNCHANGED revive
       ELSE \E d \in DeadJobLookup(dead_letter_queue, jobId) :
              /\ revive' = [pc |-> "insert", id |-> jobId, dead |-> d]
              /\ call' = EndOf("retryDeadJob", jobId, Running, NullText)
    /\ UNCHANGED <<now, storeVars, poolVars, crashes, log, enqueued>>

\* retryDeadJob: jobData built from the DLQ row
DeadJobData(id, deadJob, t) ==
    [ id          |-> id,
      command     |-> deadJob.command,
      state       |-> "pending",
      attempts    |-> 0,
      max_retries |-> deadJob.max_retries,
      created_at  |-> ToISOString(t) ]

\* retryDeadJob: this.enqueue(jobData); an error of the INSERT leaves
\* retryDeadJob before the DELETE
RetryInsert ==
    /\ revive.pc = "insert"
    /\ LET data == DeadJobData(revive.dead, dead_letter_queue[revive.dead], now)
           job == NewJob(data, now)
       IN  /\ jobs' = Insert(jobs, data.id, job)
           /\ IF InsertRaises(jobs, data.id, job)
              THEN /\ call' = EndOf("retryDeadJob", revive.id, ConstraintMessage, NullText)
                   /\ revive' = NoRevive
              ELSE /\ call' = EndOf("retryDeadJob", revive.id, Running, NullText)
                   /\ revive' = [revive EXCEPT !.pc = "delete"]
    /\ UNCHANGED <<now, dead_letter_queue, config, poolVars, crashes, log, enqueued>>

\* retryDeadJob: DELETE FROM dead_letter_queue WHERE id = ?, and the return
RetryDelete ==
    /\ revive.pc = "delete"
    /\ dead_letter_queue' = Remove(dead_letter_queue, revive.id)
    /\ call' = EndOf("retryDeadJob", revive.id, Ok, NullText)
    /\ revive' = NoRevive
    /\ UNCHANGED <<now, jobs, config, poolVars, crashes, log, enqueued>>

\* the process running retryDeadJob is killed between two statements
RetryKilled ==
    /\ revive.pc # "idle"
    /\ call' = EndOf("retryDeadJob", revive.id, "killed", NullText)
    /\ revive' = NoRevive
    /\ UNCHANGED <<now, storeVars, poolVars, crashes, log, enqueued>>

RetryDeadJob ==
    \/ \E jobId \in CallerIds : RetryGet(jobId)
    \/ RetryInsert
    \/ RetryDelete
    \/ RetryKilled

Next ==
    \/ Tick
    \/ Enqueue
    \/ StartWorkers
    \/ Crash
    \/ \E l \in Loops : LoopStep(l)

Spec == Init /\ [][Next]_vars

\* timers fire, store statements return, a child that is going to exit
\* exits, and a stopped system is started again
Fairness ==
    /\ \A l \in Loops : WF_vars(LoopStep(l))
    /\ WF_vars(StartWorkers)
    /\ WF_vars(Tick)

FairSpec == Spec /\ Fairness

\* the pool in a process that does not crash, under the same fairness
LiveNext ==
    \/ Tick
    \/ Enqueue
    \/ StartWorkers
    \/ \E l \in Loops : LoopStep(l)

LiveSpec == Init /\ [][LiveNext]_vars /\ Fairness

\* the pool on a store whose completeJob can raise
StoreErrorNext ==
    \/ Tick
    \/ Enqueue
    \/ StartWorkers
    \/ \E l \in Loops : LoopStep(l)
    \/ \E l \in Loops : CompleteRaises(l)

StoreErrorSpec == Init /\ [][StoreErrorNext]_vars

PriorityNext ==
    \/ Tick
    \/ SeqEnqueue
    \/ SeqDequeue

PrioritySpec == Init /\ [][PriorityNext]_vars

\* the pool with a shutdown request (`worker stop`, SIGINT)
ShutdownNext ==
    \/ Tick
    \/ Enqueue
    \/ StartWorkers
    \/ StopRequest
    \/ StopPoll
    \/ \E l \in Loops : LoopStep(l)

ShutdownSpec == Init /\ [][ShutdownNext]_vars

\* backoff_base set to a number, to the empty text or to a text that is
\* not a number
BackoffSetConfig ==
    \E value \in {"0", "2", "3", "", "abc"} : setConfig("backoff_base", value)

\* one caller that claims and fails jobs while backoff_base is changed
BackoffNext ==
    \/ Tick
    \/ Enqueue
    \/ ApiDequeue
    \/ ApiFail
    \/ BackoffSetConfig

BackoffSpec == Init /\ [][BackoffNext]_vars

ApiNext ==
    \/ Tick
    \/ ApiEnqueue
    \/ ApiDequeue
    \/ ApiComplete
    \/ ApiFail
    \/ ApiSetConfig
    \/ RetryDeadJob

ApiSpec == Init /\ [][ApiNext]_vars

\* callers that enqueue under ids of their own choice, and consume the jobs
CallerEnqueue == enqueueAny(CallerIds)

EnqueueNext ==
    \/ Tick
    \/ CallerEnqueue
    \/ ApiDequeue
    \/ ApiComplete

EnqueueSpec == Init /\ [][EnqueueNext]_vars

\* ------------------------------- one worker: executeCommand and its report
ExitCodes == {0, 1, 2}
Stdouts == {"", "out\n"}
Stderrs == {"", " \n", "boom\n", "boom"}
SpawnErrorMessage == "spawn /bin/sh ENOENT"

\* String.prototype.trim on the texts the child writes here
trim(text) ==
    CASE text = " \n" -> ""
      [] text = "boom\n" -> "boom"
      [] OTHER -> text

TimedOutMessage(timeoutSeconds) ==
    "Job timed out after " \o ToString(timeoutSeconds) \o " seconds"

ExitCodeMessage(code) == "Command failed with exit code " \o ToString(code)

\* faulty variant of executeCommand: the close handler tests the exit code
\* before isTimedOut
executeCommandCodeFirst(event, isTimedOut, code, output, error, timeoutSeconds) ==
    IF event = "error"
    THEN [success |-> FALSE, text |-> SpawnErrorMessage]
    ELSE IF code = 0
    THEN [success |-> TRUE, text |-> output]
    ELSE IF isTimedOut
    THEN [success |-> FALSE, text |-> TimedOutMessage(timeoutSeconds)]
    ELSE [success |-> FALSE,
          text |-> IF trim(error) = "" THEN ExitCodeMessage(code) ELSE trim(error)]

\* the value executeCommand resolves with (text: result.output of a success,
\* result.error of a failure): the 'error' event, or the 'close' handler
executeCommand(event, isTimedOut, code, output, error, timeoutSeconds) ==
    IF event = "error"
    THEN [success |-> FALSE, text |-> SpawnErrorMessage]
    ELSE IF isTimedOut
    THEN [success |-> FALSE, text |-> TimedOutMessage(timeoutSeconds)]
    ELSE IF code = 0
    THEN [success |-> TRUE, text |-> output]
    ELSE [success |-> FALSE,
          text |-> IF trim(error) = "" THEN ExitCodeMessage(code) ELSE trim(error)]

\* job data with or without a timeout_seconds
ExecInputs(ids) ==
    [ id : FreshIds(ids), command : Commands, max_retries : {0, 1},
      timeout_seconds : {0, 5} ]

ExecEnqueue == \E data \in ExecInputs(JobIds) : enqueue(data)

\* the worker's dequeue()
ExecDequeue ==
    /\ call.op # "executeCommand"
    /\ ApiDequeue

\* executeCommand(job.command, job.timeout_seconds) resolves: the child has
\* written output and error, the timer has fired or not, and the child has
\* closed with a code or could not be spawned (before the timer could fire)
ExecClose ==
    /\ call.op # "executeCommand"
    /\ \E id \in Claimed, event \in {"close", "error"}, isTimedOut \in BOOLEAN,
          code \in ExitCodes, output \in Stdouts, error \in Stderrs,
          executionTime \in {0, 1} :
         /\ event = "error" => (~isTimedOut /\ code = 0 /\ output = "" /\ error = "")
         /\ LET result == executeCommand(event, isTimedOut, code, output, error,
                                         jobs[id].timeout_seconds)
            IN  call' = [ op |-> "executeCommand", id |-> id,
                          outcome |-> IF result.success THEN "success" ELSE "failure",
                          message |-> result.text,
                          event |-> event, isTimedOut |-> isTimedOut, code |-> code,
                          stdout |-> output, stderr |-> error,
                          executionTime |-> executionTime ]
    /\ UNCHANGED <<now, storeVars, poolVars, crashes, log, revive, enqueued>>

\* processJobs after the await: completeJob(job.id, result.output,
\* executionTime) or failJob(job.id, result.error)
ExecReport ==
    /\ call.op = "executeCommand"
    /\ IF call.outcome = "success"
       THEN /\ jobs' = CompleteUpdate(jobs, call.id, call.message)
            /\ call' = [ op |-> "completeJob", id |-> call.id, outcome |-> Ok,
                         message |-> call.message,
                         executionTimeMs |-> call.executionTime ]
            /\ UNCHANGED dead_letter_queue
       ELSE failJob(call.id, call.message)
    /\ UNCHANGED <<now, config, poolVars, crashes, log, revive, enqueued>>

ExecNext ==
    \/ Tick
    \/ ExecEnqueue
    \/ ExecDequeue
    \/ ExecClose
    \/ ExecReport

ExecSpec == Init /\ [][ExecNext]_vars

\* ------------------------------------- the store, read back and reopened
\* job data of the CLI's enqueue command: plain (priority, --timeout,
\* --delay) or JSON, which may give state and attempts
StoreInputs(ids) ==
    [ id : ids, command : Commands, max_retries : {0, 2}, priority : Priorities,
      timeout_seconds : {0, 5}, run_at : {NULL, ToISOString(now + 1)} ]
    \cup
    [ id : ids, command : Commands, max_retries : {0, 2},
      state : {"pending", "failed", "paused"}, attempts : {0, 5} ]

\* JobQueue.enqueue; the caller keeps the job it returns
StoreEnqueue ==
    /\ \E data \in StoreInputs(JobIds) :
         LET job == NewJob(data, now)
         IN  /\ jobs' = Insert(jobs, data.id, job)
             /\ IF InsertRaises(jobs, data.id, job)
                THEN /\ call' = EndOf("enqueue", data.id, ConstraintMessage, data.command)
                     /\ UNCHANGED enqueued
                ELSE /\ call' = EndOf("enqueue", data.id, Ok, data.command)
                     /\ enqueued' = <<[id |-> data.id, data |-> data, job |-> job]>>
    /\ UNCHANGED <<now, dead_letter_queue, config, poolVars, crashes, log, revive>>

\* the keys callers set: a recognized key and one the system does not know
SetKeys == {"max_retries", "test_key"}

\* the keys callers read: also a key nobody sets
GetKeys == SetKeys \cup {"backoff_base", "unset_key"}

StoreSetConfig == \E key \in SetKeys, value \in {"1", "2", "3"} : setConfig(key, value)

\* a caller's getConfig: SELECT value FROM config WHERE key = ?
GetConfig ==
    /\ \E key \in GetKeys :
         call' = [ op |-> "getConfig", id |-> NoId, outcome |-> Ok,
                   message |-> getConfig(config, key), key |-> key ]
    /\ UNCHANGED <<now, storeVars, poolVars, crashes, log, revive, enqueued>>

\* faulty variant of Reopen: the default configuration is written with
\* INSERT OR REPLACE
ReopenWithDefaults ==
    /\ config' = [ k \in DOMAIN DefaultConfig \cup DOMAIN config |->
                     IF k \in DOMAIN DefaultConfig THEN DefaultConfig[k] ELSE config[k] ]
    /\ call' = EndOf("initialize", NoId, Ok, NullText)
    /\ UNCHANGED <<now, jobs, dead_letter_queue, poolVars, crashes, log, revive, enqueued>>

\* close, new JobQueue on the same database, initialize: the tables exist
\* (CREATE TABLE IF NOT EXISTS, no column to add) and INSERT OR IGNORE
\* leaves every config key that has a value
Reopen ==
    /\ config' = [ k \in DOMAIN DefaultConfig \cup DOMAIN config |->
                     IF k \in DOMAIN config THEN config[k] ELSE DefaultConfig[k] ]
    /\ call' = EndOf("initialize", NoId, Ok, NullText)
    /\ UNCHANGED <<now, jobs, dead_letter_queue, poolVars, crashes, log, revive, enqueued>>

\* faulty variant of JobOfRow: the priority column is not read
JobOfRowNoPriority(row) ==
    [row EXCEPT !.state = IF row.state = "" THEN "pending" ELSE row.state,
                !.max_retries = IF row.max_retries = 0 THEN DefaultMaxRetries
                                                       ELSE row.max_retries,
                !.priority = 0,
                !.timeout_seconds = IF row.timeout_seconds = 0 THEN DefaultTimeout
                                                               ELSE row.timeout_seconds]

\* new Job(jobRow): the constructor's `||` defaults applied to a row
JobOfRow(row) ==
    [row EXCEPT !.state = IF row.state = "" THEN "pending" ELSE row.state,
                !.max_retries = IF row.max_retries = 0 THEN DefaultMaxRetries
                                                       ELSE row.max_retries,
                !.timeout_seconds = IF row.timeout_seconds = 0 THEN DefaultTimeout
                                                               ELSE row.timeout_seconds]

\* JobQueue.getJob: the job, or null (the empty sequence)
getJob(table, jobId) ==
    IF jobId \in DOMAIN table THEN <<JobOfRow(table[jobId])>> ELSE <<>>

\* a caller's getJob (after: the operation made before it)
GetJob ==
    /\ \E id \in JobIds :
         call' = [ op |-> "getJob", id |-> id,
                   outcome |-> IF getJob(jobs, id) = <<>> THEN "null" ELSE "job",
                   message |-> NullText, job |-> getJob(jobs, id),
                   after |-> call.op ]
    /\ UNCHANGED <<now, storeVars, poolVars, crashes, log, revive, enqueued>>

\* the keys getJobStats starts from
StatStates == {"pending", "processing", "completed", "failed", "dead"}

\* JobQueue.getJobStats: SELECT state, COUNT(*) ... GROUP BY state written
\* over the five zeroes (result[stat.state] = stat.count)
getJobStats(table) ==
    [ st \in StatStates \cup { table[id].state : id \in DOMAIN table } |->
        Cardinality({ id \in DOMAIN table : table[id].state = st }) ]

GetJobStats ==
    /\ call' = [ op |-> "getJobStats", id |-> NoId, outcome |-> Ok,
                 message |-> NullText, stats |-> getJobStats(jobs) ]
    /\ UNCHANGED <<now, storeVars, poolVars, crashes, log, revive, enqueued>>

\* the callers of the API across restarts of their process
RestartNext ==
    \/ ApiNext
    \/ Reopen

RestartSpec == Init /\ [][RestartNext]_vars

StoreNext ==
    \/ Tick
    \/ StoreEnqueue
    \/ StoreSetConfig
    \/ GetConfig
    \/ Reopen
    \/ GetJob
    \/ GetJobStats

StoreSpec == Init /\ [][StoreNext]_vars

TypeOK ==
    /\ now \in 0 .. MaxTime
    /\ DOMAIN jobs \subseteq JobIds \cup ScenarioIds
    /\ DOMAIN dead_letter_queue \subseteq JobIds
    /\ call.op \in {"none", "enqueue", "dequeue", "completeJob", "failJob",
                    "setConfig", "retryDeadJob", "executeCommand",
                    "initialize", "getJob", "getJobStats", "getConfig"}
    /\ revive.pc \in {"idle", "insert", "delete"}
    /\ isShuttingDown \in BOOLEAN
    /\ stop \in {"idle", "waiting", "done"}
    /\ \A l \in Loops : pc[l] \in {"idle", "timer", "update", "verify", "exec",
           "complete", "fail_get", "fail_config", "fail_update", "dlq_insert", "dlq_delete"}

\* ================================================================ claims
Processing(id) == InJobs(id) /\ jobs[id].state = "processing"

\* chain l's dequeue() returns a job in this step
Returns(l) == pc[l] = "verify" /\ pc'[l] = "exec"

\* C1: of the dequeue() calls that interleave on one pending job, only the
\* call whose guarded UPDATE changed the row returns the job; a call whose
\* UPDATE changed zero rows returns null.
C1_OnlyTheClaimingCallReturns ==
    [][\A l \in Loops : Returns(l) => frame[l].changes = 1]_vars

\* C2: no job id is being executed by two invocation chains at once.
C2_OneExecutionPerJob ==
    \A l1, l2 \in Loops :
        (l1 # l2 /\ pc[l1] = "exec" /\ pc[l2] = "exec") => frame[l1].job # frame[l2].job

\* C3: a job left in processing by a crash of the worker process leaves
\* processing some time after the pool has been started again.
C3_CrashedJobLeavesProcessing ==
    \A id \in JobIds :
        (/\ crashes > 0
         /\ DOMAIN workers # {}
         /\ Processing(id)
         /\ \A l \in Loops : frame[l].job # id /\ frame[l].jobRow # id)
        ~> ~Processing(id)

\* C4: when the 5 s timer of a timed-out execution fires and the child has
\* still not exited, the child is sent SIGKILL (so that executeCommand
\* resolves and the timeout is reported through failJob).
C4_UnexitedChildIsKilled ==
    [][\A l \in Loops :
          ( /\ pc[l] = "exec" /\ pc'[l] = "exec"
            /\ frame[l].killTimer /\ ~frame'[l].killTimer
            /\ frame[l].child = "ignoring" )
          => frame'[l].child = "dying"]_vars

\* C5 as stated: a job reaches the DLQ only with attempts = max_retries + 1,
\* after staying in the main table through max_retries failures.
C5_DeadAfterMaxRetriesPlusOne ==
    \A id \in DOMAIN dead_letter_queue :
        dead_letter_queue[id].attempts = dead_letter_queue[id].max_retries + 1

\* C5 as amended: a job is promoted to the DLQ exactly when its attempts,
\* after the increment done by failJob, reach max_retries: every DLQ entry
\* has attempts = max_retries, and every job still in the main table has
\* attempts < max_retries.
C5_DeadWhenAttemptsReachMaxRetries ==
    /\ \A id \in DOMAIN dead_letter_queue :
           dead_letter_queue[id].attempts = dead_letter_queue[id].max_retries
    /\ \A id \in DOMAIN jobs : jobs[id].attempts < jobs[id].max_retries

C5_Witness ==
    \E id \in DOMAIN dead_letter_queue :
        /\ dead_letter_queue[id].max_retries = 2
        /\ dead_letter_queue[id].attempts = 2
        /\ ~InJobs(id)

\* C6: a job enqueued with max_retries = 1 is never rescheduled: in the
\* main table it has no failure recorded and no next_retry_at, and its DLQ
\* entry is written by its first failJob, with attempts = 1.
C6_MaxRetriesOneDiesOnFirstFailure ==
    /\ \A id \in DOMAIN jobs :
           jobs[id].max_retries = 1 =>
               /\ jobs[id].attempts = 0
               /\ jobs[id].next_retry_at = NULL
               /\ jobs[id].error_message = NullText
    /\ \A id \in DOMAIN dead_letter_queue :
           dead_letter_queue[id].max_retries = 1 => dead_letter_queue[id].attempts = 1

C6_Witness ==
    \E id \in DOMAIN dead_letter_queue :
        /\ dead_letter_queue[id].max_retries = 1
        /\ dead_letter_queue[id].attempts = 1
        /\ ~InJobs(id)

\* C7: no job id is at once a row of jobs and a row of dead_letter_queue.
C7_NeverInBothTables ==
    \A id \in JobIds : ~(InJobs(id) /\ InDLQ(id))

\* C8: dequeue() never returns a job whose next_retry_at is later than now.
C8_NotReturnedBeforeRetryTime ==
    [][\A l \in Loops :
          Returns(l) =>
              \/ jobs[frame[l].jobRow].next_retry_at = NULL
              \/ TimeOf(jobs[frame[l].jobRow].next_retry_at) <= now]_vars

\* C9: a job enqueued with a run_at is returned by dequeue() only when
\* now >= run_at, and to one dequeue() call only.
C9_ScheduledJobReturnedOnce ==
    [][\A l \in Loops :
          (Returns(l) /\ jobs[frame[l].jobRow].run_at # NULL) =>
              /\ TimeOf(jobs[frame[l].jobRow].run_at) <= now
              /\ \A k \in Loops \ {l} : frame[k].job # frame[l].jobRow]_vars

\* C10: every job dequeue() returns has the maximum priority among the jobs
\* that were pending when it was returned and, among those of that
\* priority, the earliest created_at; sequential dequeues over jobs enqueued
\* with priorities 0,5,3,5,1 return priorities 5,5,3,1,0, the two jobs of
\* priority 5 in created_at order.
ReturnedBefore(k) == { log[i] : i \in 1 .. (k - 1) }

C10_PriorityThenAge ==
    /\ \A k \in 1 .. Len(log) :
         \A id \in DOMAIN jobs \ ReturnedBefore(k) :
            /\ jobs[id].priority <= jobs[log[k]].priority
            /\ jobs[id].priority = jobs[log[k]].priority =>
                 TimeOf(jobs[log[k]].created_at) <= TimeOf(jobs[id].created_at)
    /\ ( /\ DOMAIN jobs = ScenarioIds
         /\ \A id \in ScenarioIds : jobs[id].priority = ScenarioPriorities[id]
         /\ Len(log) = Len(ScenarioPriorities) )
       => /\ [k \in ScenarioIds |-> jobs[log[k]].priority] = <<5, 5, 3, 1, 0>>
          /\ TimeOf(jobs[log[1]].created_at) <= TimeOf(jobs[log[2]].created_at)
          /\ jobs[log[1]].created_at # jobs[log[2]].created_at => log[1] < log[2]

C10_Witness ==
    /\ DOMAIN jobs = ScenarioIds
    /\ \A id \in ScenarioIds : jobs[id].priority = ScenarioPriorities[id]
    /\ Len(log) = Len(ScenarioPriorities)
    /\ jobs[2].created_at # jobs[4].created_at

\* an API caller makes the call op(id) in this step
Called(op, id) ==
    /\ call'.op = op
    /\ call'.id = id
    /\ (call' # call \/ storeVars' # storeVars)

C12_DelayIsBaseToTheAttempts ==
    [][/\ BackoffBase([k \in {} |-> NullText]) = 2
       /\ \A id \in JobIds :
            (Called("failJob", id) /\ call'.outcome = Ok /\ id \in DOMAIN jobs') =>
                LET base == parseInt(getConfig(config, "backoff_base"))
                    delay == TimeOf(jobs'[id].next_retry_at) - now
                IN  /\ delay = Pow(base, jobs[id].attempts + 1)
                    /\ (base = 2 /\ jobs[id].attempts = 0) => delay = 2
                    /\ jobs[id].attempts > 0 => delay = base * Pow(base, jobs[id].attempts)]_vars

C12_Witness ==
    \E id \in DOMAIN jobs :
        /\ call.op = "failJob"
        /\ call.id = id
        /\ jobs[id].attempts = 2
        /\ getConfig(config, "backoff_base") = "3"
        /\ jobs[id].next_retry_at = ToISOString(now + 9)

\* the retryDeadJob(id) under way returns or raises in this step
RetryEnds(id) ==
    /\ revive.pc # "idle"
    /\ revive.id = id
    /\ revive'.pc = "idle"
    /\ call'.outcome # "killed"

\* C13: a retryDeadJob(id) that found id in the DLQ ends with a main-table
\* job of that id and of the DLQ entry's command, in state pending with
\* attempts = 0 and next_retry_at = null, and with no DLQ entry for id.
C13_RetryDeadJobRevivesTheJob ==
    [][\A id \in JobIds :
          RetryEnds(id) =>
              /\ id \in DOMAIN jobs'
              /\ jobs'[id].command = dead_letter_queue[id].command
              /\ jobs'[id].state = "pending"
              /\ jobs'[id].attempts = 0
              /\ jobs'[id].next_retry_at = NULL
              /\ id \notin DOMAIN dead_letter_queue']_vars

\* C14: retryDeadJob is atomic: while it is between its INSERT into jobs and
\* its DELETE from dead_letter_queue, its id is not both a main-table job
\* and a DLQ entry.
C14_RetryDeadJobIsAtomic ==
    \A id \in JobIds :
        (revive.pc = "delete" /\ revive.id = id) => ~(InJobs(id) /\ InDLQ(id))

\* C15: retryDeadJob with an id that is not in the DLQ raises the not-found
\* error and leaves jobs, dead_letter_queue and config unchanged.
C15_UnknownDeadJobIsAnError ==
    [][\A id \in CallerIds :
          ( /\ Called("retryDeadJob", id)
            /\ revive.pc = "idle"
            /\ id \notin DOMAIN dead_letter_queue )
          => /\ call'.outcome = NotFoundMessage
             /\ revive'.pc = "idle"
             /\ UNCHANGED storeVars]_vars

C15_Witness ==
    \E id \in CallerIds :
        /\ call = EndOf("retryDeadJob", id, NotFoundMessage, NullText)
        /\ id \notin DOMAIN dead_letter_queue
        /\ DOMAIN dead_letter_queue # {}
        /\ DOMAIN jobs # {}

\* C16: enqueue with an id that is already in the main table raises the
\* uniqueness error and changes no row: not the existing job, not another
\* job, not the DLQ, not the config.
C16_DuplicateIdIsRejected ==
    [][\A id \in CallerIds :
          (Called("enqueue", id) /\ id \in DOMAIN jobs)
          => /\ call'.outcome = ConstraintMessage
             /\ UNCHANGED storeVars]_vars

C16_Witness ==
    \E id \in DOMAIN jobs, other \in DOMAIN jobs :
        /\ id # other
        /\ call = EndOf("enqueue", id, ConstraintMessage, "cmd")
        /\ jobs[id].state = "completed"
        /\ jobs[id].created_at # ToISOString(now)

\* C17: enqueue with a missing or an empty command is rejected and creates
\* no job row.
C17_EmptyCommandIsRejected ==
    [][\A id \in CallerIds :
          (Called("enqueue", id) /\ call'.message \in {"", NullText})
          => /\ call'.outcome # Ok
             /\ jobs' = jobs]_vars

\* C18: every row that enters the main table enters it in state pending
\* with attempts = 0, whatever job data enqueue was given.
C18_JobsStartPending ==
    [][\A id \in CallerIds :
          (id \notin DOMAIN jobs /\ id \in DOMAIN jobs')
          => /\ jobs'[id].state = "pending"
             /\ jobs'[id].attempts = 0]_vars

\* C19: a completed job has a null error_message and a null next_retry_at,
\* also when it had failed and been rescheduled before the run that
\* completed it.
C19_CompletedJobHasNoError ==
    \A id \in DOMAIN jobs :
        jobs[id].state = "completed" =>
            /\ jobs[id].error_message = NullText
            /\ jobs[id].next_retry_at = NULL

\* the persisted state of a job: its state column, or where it is instead
StateOf(table, dlq, id) ==
    IF id \in DOMAIN table THEN table[id].state
    ELSE IF id \in DOMAIN dlq THEN "DLQ" ELSE "none"

LegalTransitions ==
    { <<"none", "pending">>, <<"pending", "processing">>,
      <<"processing", "completed">>, <<"processing", "pending">>,
      <<"processing", "DLQ">> }

\* C20: every change of a job's persisted state is one of none->pending,
\* pending->processing, processing->completed, processing->pending and
\* processing->DLQ; a completed job never changes state again.
C20_OnlyLegalTransitions ==
    [][\A id \in JobIds :
          LET before == StateOf(jobs, dead_letter_queue, id)
              after == StateOf(jobs', dead_letter_queue', id)
          IN  before # after => <<before, after>> \in LegalTransitions]_vars

\* chain l's failJob writes its retry UPDATE in this step
FailWrites(l) == pc[l] = "fail_update" /\ pc'[l] = "timer"

\* C21: while a job is in the main table its attempts never decrease, they
\* change only in a step of failJob, and every failJob that reschedules the
\* job leaves them increased by exactly 1.
C21_AttemptsCountFailures ==
    [][\A id \in JobIds :
          (id \in DOMAIN jobs /\ id \in DOMAIN jobs') =>
              /\ jobs'[id].attempts >= jobs[id].attempts
              /\ jobs'[id].attempts # jobs[id].attempts =>
                     \E l \in Loops : FailWrites(l) /\ frame[l].job = id
              /\ \A l \in Loops :
                     (FailWrites(l) /\ frame[l].job = id) =>
                         jobs'[id].attempts = jobs[id].attempts + 1]_vars

\* C30: a main-table job whose state is not completed has a null output
\* (output and execution_time_ms are written together, by completeJob
\* alone).
C30_OutputOnlyWhenCompleted ==
    \A id \in DOMAIN jobs :
        jobs[id].state # "completed" => jobs[id].output = NullText

\* chain l holds a job it has claimed and not yet reported
HoldsClaim(l) ==
    \/ pc[l] \in {"exec", "complete", "fail_get", "fail_config", "fail_update",
                  "dlq_insert", "dlq_delete"}
    \/ pc[l] = "verify" /\ frame[l].changes = 1

\* C23: once stopWorkers has set isShuttingDown, no chain of the pool moves
\* a job from pending to processing, and no dequeue() of the pool returns a
\* job to be executed.
C23_NoClaimAfterShutdownRequest ==
    [][isShuttingDown =>
          \A l \in Loops :
              /\ ~(pc[l] = "update" /\ pc'[l] = "verify" /\ frame'[l].changes = 1)
              /\ ~Returns(l)]_vars

\* C24: when stopWorkers returns, no chain of the pool holds a job it has
\* claimed and not yet reported through completeJob or failJob.
C24_StopReturnsAfterReports ==
    [][(stop # "done" /\ stop' = "done") => \A l \in Loops : ~HoldsClaim(l)]_vars

\* the step in which the worker reports the result of an execution
Reports == call.op = "executeCommand" /\ call' # call

\* C25 (as stated): the result of one execution is classified as: timer
\* expired -> failJob with "Job timed out after <N> seconds" whatever the
\* exit code; otherwise exit code 0 -> completeJob with the captured stdout
\* and the elapsed ms; otherwise non-zero exit -> failJob with stderr, or
\* "Command failed with exit code <c>" when stderr is empty; spawn error ->
\* failJob with the spawn error message.
C25_ResultClassifiedByStderr ==
    [][Reports =>
          /\ (call.event = "close" /\ call.isTimedOut) =>
                /\ call'.op = "failJob"
                /\ call'.message = TimedOutMessage(jobs[call.id].timeout_seconds)
          /\ (call.event = "close" /\ ~call.isTimedOut /\ call.code = 0) =>
                /\ call'.op = "completeJob"
                /\ call'.message = call.stdout
                /\ call'.executionTimeMs = call.executionTime
                /\ jobs'[call.id].state = "completed"
                /\ jobs'[call.id].output = call.stdout
          /\ (call.event = "close" /\ ~call.isTimedOut /\ call.code # 0) =>
                /\ call'.op = "failJob"
                /\ call'.message = IF call.stderr = "" THEN ExitCodeMessage(call.code)
                                                       ELSE call.stderr
          /\ call.event = "error" =>
                /\ call'.op = "failJob"
                /\ call'.message = SpawnErrorMessage]_vars

\* C25 (amended): as above, but a non-zero exit gives failJob with stderr
\* stripped of leading and trailing whitespace, or "Command failed with exit
\* code <c>" when the stripped stderr is empty.
C25_ResultClassifiedByTrimmedStderr ==
    [][Reports =>
          /\ (call.event = "close" /\ call.isTimedOut) =>
                /\ call'.op = "failJob"
                /\ call'.message = TimedOutMessage(jobs[call.id].timeout_seconds)
          /\ (call.event = "close" /\ ~call.isTimedOut /\ call.code = 0) =>
                /\ call'.op = "completeJob"
                /\ call'.message = call.stdout
                /\ call'.executionTimeMs = call.executionTime
                /\ jobs'[call.id].state = "completed"
                /\ jobs'[call.id].output = call.stdout
          /\ (call.event = "close" /\ ~call.isTimedOut /\ call.code # 0) =>
                /\ call'.op = "failJob"
                /\ call'.message = IF trim(call.stderr) = "" THEN ExitCodeMessage(call.code)
                                                             ELSE trim(call.stderr)
          /\ call.event = "error" =>
                /\ call'.op = "failJob"
                /\ call'.message = SpawnErrorMessage]_vars

\* a child that wrote only whitespace to stderr and exited with code 2 has
\* been classified
C25_Witness ==
    /\ call.op = "executeCommand"
    /\ call.event = "close" /\ ~call.isTimedOut
    /\ call.code = 2 /\ call.stderr = " \n"
    /\ call.message = ExitCodeMessage(2)

\* C22: in every reachable state, every job in the main table satisfies
\* attempts <= max_retries + 1.
C22_AttemptsBoundedInMainTable ==
    \A id \in DOMAIN jobs : jobs[id].attempts <= jobs[id].max_retries + 1

\* C26: round trip over a restart: after enqueue(data), closing the store
\* and opening a new JobQueue on the same database, getJob(id) returns a job
\* whose id, command, state, attempts, max_retries, priority,
\* timeout_seconds and run_at equal those of the job enqueue returned.
C26_RoundTripOverRestart ==
    [][\A id \in JobIds :
          (/\ call.op = "initialize"
           /\ Called("getJob", id)
           /\ enqueued # NoEnqueue
           /\ enqueued[1].id = id)
          => /\ call'.outcome = "job"
             /\ call'.id = enqueued[1].id
             /\ \A field \in {"command", "state", "attempts", "max_retries",
                              "priority", "timeout_seconds", "run_at"} :
                    call'.job[1][field] = enqueued[1].job[field]]_vars

\* after a restart, getJob has returned a job enqueued with a priority, a
\* timeout and a delay of its own
C26_Witness ==
    /\ call.op = "getJob"
    /\ call.outcome = "job"
    /\ enqueued # NoEnqueue
    /\ enqueued[1].id = call.id
    /\ enqueued[1].job.priority = 1
    /\ enqueued[1].job.timeout_seconds = 5
    /\ enqueued[1].job.run_at # NULL
    /\ call.job[1].priority = 1
    /\ call.after = "initialize"

\* C27: after setConfig('max_retries', v), a job enqueued without an
\* explicit max_retries gets max_retries = v (3 when the key has its default
\* value).
C27_RetryLimitFromConfig ==
    [][\A id \in JobIds :
          (/\ Called("enqueue", id)
           /\ call'.outcome = Ok
           /\ enqueued'[1].data.max_retries = 0)
          => jobs'[id].max_retries = parseInt(getConfig(config, "max_retries"))]_vars

\* C28: in every reachable store state, each main-table row has state
\* pending, processing or completed, so the failed and dead counts of
\* getJobStats are 0.
C28_FailedIsNeverStored ==
    /\ \A id \in DOMAIN jobs : jobs[id].state \in {"pending", "processing", "completed"}
    /\ getJobStats(jobs)["failed"] = 0
    /\ getJobStats(jobs)["dead"] = 0

\* C29: getJobStats returns, for each of pending, processing, completed,
\* failed and dead, the number of main-table rows in that state, and the
\* five counts sum to the number of rows of the jobs table.
C29_StatsCountEveryRow ==
    call.op = "getJobStats" =>
        /\ \A st \in StatStates :
              call.stats[st] = Cardinality({ id \in DOMAIN jobs : jobs[id].state = st })
        /\ call.stats["pending"] + call.stats["processing"] + call.stats["completed"]
             + call.stats["failed"] + call.stats["dead"] = Cardinality(DOMAIN jobs)

\* C31: after setConfig(k, v), getConfig(k) returns v until the next
\* setConfig(k, ...), for recognized and unrecognized keys alike; a second
\* setConfig on the same key replaces the value; getConfig of a key never
\* set returns null without error.
C31_ConfigRoundTrip ==
    [][/\ \A key \in GetKeys :
            IF call'.op = "setConfig" /\ call'.key = key /\ (call' # call \/ config' # config)
            THEN getConfig(config', key) = call'.message
            ELSE getConfig(config', key) = getConfig(config, key)
       /\ (call'.op = "getConfig" /\ call' # call) =>
            /\ call'.outcome = Ok
            /\ call'.message = IF call'.key \in DOMAIN config THEN config[call'.key]
                                                             ELSE NullText
       /\ getConfig(config', "unset_key") = NullText]_vars

\* getConfig has returned a value that replaced an earlier one of an
\* unrecognized key
C31_Witness ==
    /\ call.op = "getConfig"
    /\ call.key = "test_key"
    /\ call.message = "3"
    /\ config["test_key"] = "3"
    /\ config["max_retries"] = "1"

\* C32: for a given job row, next_retry_at only moves forward: each value
\* written by failJob is later than or equal to the value it replaces.
C32_NextRetryAtMovesForward ==
    [][\A id \in JobIds :
          (/\ id \in DOMAIN jobs
           /\ id \in DOMAIN jobs'
           /\ jobs[id].next_retry_at # NULL
           /\ jobs'[id].next_retry_at # jobs[id].next_retry_at)
          => /\ jobs'[id].next_retry_at # NULL
             /\ TextLeq(jobs[id].next_retry_at, jobs'[id].next_retry_at)]_vars

\* C33: once inserted, a dead_letter_queue row is never modified, and it is
\* removed only by retryDeadJob for that id.
C33_DlqEntriesAppendOnly ==
    [][\A id \in DOMAIN dead_letter_queue :
          IF id \in DOMAIN dead_letter_queue'
          THEN dead_letter_queue'[id] = dead_letter_queue[id]
          ELSE /\ call'.op = "retryDeadJob"
               /\ call'.id = id
               /\ call'.outcome = Ok]_vars

\* a job enqueued under the id of a DLQ entry has exhausted its retries, and
\* the entry is the one of the earlier job
C33_Witness ==
    /\ call.op = "failJob"
    /\ call.outcome = ConstraintMessage
    /\ InDLQ(call.id)
    /\ InJobs(call.id)
    /\ TextLess(dead_letter_queue[call.id].failed_at, ToISOString(now))

\* C34: for every stored value of backoff_base (numeric or not a number)
\* failJob on the retry path completes without raising and leaves the job
\* pending with a valid next_retry_at, using base 2 when no usable value is
\* stored.
C34_FailJobToleratesAnyBackoffBase ==
    [][\A id \in JobIds :
          (Called("failJob", id) /\ jobs[id].attempts + 1 < jobs[id].max_retries)
          => /\ call'.outcome = Ok
             /\ jobs'[id].state = "pending"
             /\ jobs'[id].next_retry_at # NULL
             /\ TextLeq(ToISOString(now), jobs'[id].next_retry_at)
             /\ getConfig(config, "backoff_base") \in {"", "abc"}
                  => jobs'[id].next_retry_at
                       = ToISOString(now + Pow(2, jobs[id].attempts + 1))]_vars

\* C35: if completeJob raises a store error while a worker reports an
\* outcome, the job is left as it was (at worst still processing): a job
\* whose command exited 0 is not turned into a failure by the reporting
\* error, so no row records the store's error as the job's failure.
C35_ReportingErrorIsNotAFailure ==
    /\ \A id \in DOMAIN jobs : jobs[id].error_message # StoreErrorMessage
    /\ \A id \in DOMAIN dead_letter_queue :
          dead_letter_queue[id].error_message # StoreErrorMessage

\* C36: for every worker id at most one processJobs invocation is scheduled
\* or running at any time (an empty poll schedules exactly one follow-up
\* poll).
C36_OneLoopPerWorker ==
    \A w \in DOMAIN workers :
        Cardinality({ l \in Loops : pc[l] # "idle" /\ frame[l].workerId = w }) <= 1

\* C37: each dequeue() that returns a job to a worker is followed by one
\* outcome report for that execution, a completeJob or a failJob, never
\* both and never two: no invocation calls failJob from the catch block
\* after the completeJob or failJob of the same execution.
C37_OneReportPerExecution ==
    \A l \in Loops : ~(pc[l] = "fail_get" /\ frame[l].caught)

\* C38: with workers polling fairly, no crash and no store error, every
\* enqueued job whose run_at is reached eventually comes to rest in
\* completed or in the DLQ. Stated for the jobs whose way there needs no
\* wait for a retry time: no run_at and max_retries = 1.
C38_EveryJobComesToRest ==
    \A id \in JobIds :
        (/\ InJobs(id)
         /\ jobs[id].run_at = NULL
         /\ jobs[id].max_retries = 1
         /\ DOMAIN workers # {})
        ~> \/ InJobs(id) /\ jobs[id].state = "completed"
           \/ ~InJobs(id) /\ InDLQ(id)

\* C39: a failJob that exhausts the retries ends with the job in the DLQ
\* and absent from the main table, also when an entry with the same id is
\* already in the DLQ; the job is never left in processing.
C39_ExhaustionMovesToDlq ==
    [][\A id \in JobIds :
          (Called("failJob", id) /\ jobs[id].attempts + 1 >= jobs[id].max_retries)
          => /\ id \in DOMAIN dead_letter_queue'
             /\ id \notin DOMAIN jobs']_vars

\* C40: initialize() on an existing database leaves every job row, every
\* DLQ row and every config value that was set unchanged (default values
\* are inserted only for keys that have none), so a setConfig survives any
\* number of restarts.
C40_InitializeKeepsData ==
    [][call'.op = "initialize" =>
          /\ jobs' = jobs
          /\ dead_letter_queue' = dead_letter_queue
          /\ DOMAIN config' = DOMAIN config \cup DOMAIN DefaultConfig
          /\ \A key \in DOMAIN config' :
                config'[key] = IF key \in DOMAIN config THEN config[key]
                                                        ELSE DefaultConfig[key]]_vars

\* the store has been reopened with a job row, a DLQ row and a backoff_base
\* that is not the default
C40_Witness ==
    /\ call.op = "initialize"
    /\ DOMAIN jobs # {}
    /\ DOMAIN dead_letter_queue # {}
    /\ getConfig(config, "backoff_base") = "3"

====
